---- MODULE Spec2Model ----
(***************************************************************************)
(* Model of the video editor's cut-interval model, real<->effective time   *)
(* mapping and dual-buffer playback scheduler                              *)
(* (src/src/components/VideoEditor.tsx, VideoPlayer.tsx, Timeline.tsx).    *)
(* All times are integers in milliseconds (the source uses float seconds:  *)
(* 1e-3 s = 1, 0.05 s = 50, 0.1 s = 100, 0.4 s = 400).                     *)
(***************************************************************************)
EXTENDS Integers, Sequences, FiniteSets, TLC

VARIABLES
    duration,      \* useState(60): media duration known to the editor
    cuts,          \* useState<Cut[]>([]): sequence of [s, e]
    started,       \* useState(false)
    isSeeking,     \* useState(false): slider override flag
    scrubbing,     \* useState(false): timeline-drag override flag
    wasPlaying,    \* useState(false)
    selEffStart,   \* selection start
    selEffEnd,     \* selection end
    viewStart,     \* viewport start
    viewEnd,       \* viewport end
    visible,       \* [Buf -> BOOLEAN]: classList contains 'video-visible'
    cur,           \* [Buf -> Int]: currentTime of each video element
    vol,           \* [Buf -> 0..1000]: volume of each element, in 1/1000
    paused,        \* [Buf -> BOOLEAN]: paused attribute of each element
    ready,         \* [Buf -> BOOLEAN]: readyState >= HAVE_CURRENT_DATA
    mediaDur,      \* duration of the resource behind the current videoUrl
    metaPending,   \* buffers whose 'loadedmetadata' event is still to fire
    tuPending,     \* a 'timeupdate' event caused by a seek is still to fire
    ramps,         \* pending crossToStandby step callbacks (animation frames)
    drag,          \* closure of the running handle drag (Timeline.tsx)
    spans,         \* history: spans passed to addCut and not since removed
    zooms,         \* history: zoom operations since the latest onMeta
    mounted,       \* the VideoPlayer component is mounted
    uiLive,        \* number of pending uiTick animation-frame callbacks
    uiArmed,       \* animationId of the latest uiTick effect is still pending
    videoError,    \* useState<string | null>(null) of VideoPlayer: an error is shown
    srcGen,        \* history: number of media sources loaded after the first
    errGen,        \* history: srcGen at the latest media error, -1 before any
    videoUrl,      \* useState<string>(''): kind of the source URL
    exporting,     \* useState(false)
    response,      \* the fetch of handleExportVideo: none, pending, ok, error
    sent,          \* history: bodies of the requests sent to /api/export-video
    blocked,       \* history: <<videoUrl, cuts.length>> of the latest refused export
    filter,        \* export-video: input and segments of the latest filter built
    store,         \* entries of public/exports
    reply,         \* latest answer of the download-video endpoint
    clock,         \* export-video: the value Date.now() returns, in ms
    jobs,          \* export-video: the POST requests, by order of arrival
    dirs,          \* export-video: directories the service has created
    opening,       \* export-video: write streams whose file is not yet opened
    disk           \* export-video: files under temp/ and public/exports/

vars == <<duration, cuts, started, isSeeking, scrubbing, wasPlaying,
          selEffStart, selEffEnd, viewStart, viewEnd, visible, cur, vol,
          paused, ready, mediaDur, metaPending, tuPending, ramps, drag, spans,
          zooms, mounted, uiLive, uiArmed, videoError, srcGen, errGen,
          videoUrl, exporting, response, sent, blocked, filter, store, reply,
          clock, jobs, dirs, opening, disk>>

\* State of the VideoPlayer effects and of its error overlay.
playerVars == <<mounted, uiLive, uiArmed, videoError, srcGen, errGen>>
\* What the handlers of the editor never write.
\* State of the export: the editor's side, the two endpoints and their store.
\* The requests in flight in the encoding service and its files.
serviceVars == <<clock, jobs, dirs, opening, disk>>
exportVars == <<videoUrl, exporting, response, sent, blocked, filter, store, reply,
                serviceVars>>
histVars == <<spans, zooms, playerVars, exportVars>>

editorVars == <<duration, cuts, started, isSeeking, scrubbing, wasPlaying,
                selEffStart, selEffEnd, viewStart, viewEnd>>

(***************************************************************************)
(* Program constants.                                                      *)
(***************************************************************************)
DefaultDuration == 60000
DefaultSelEnd == 5000
minSpan == 100
FADE_MS == 150
MergeEps == 1
PrerollMargin == 400
MinCutLen == 50
DupTol == 100
HandleGap == 100
FullVolume == 1000

(***************************************************************************)
(* Bounds of the model.                                                    *)
(***************************************************************************)
MaxRamps == 1
MaxSpans == 3
MaxZooms == 2
MaxViewCuts == 1
MaxLoops == 2
MaxSources == 1
MaxExports == 1
MaxOverlap == 2
MaxExportSpans == 2
MaxNameLen == 3
MaxJobs == 2
MaxClock == 1

\* Kinds of source URL: none yet, the default relative path, an absolute
\* http(s) URL of the query string, the object URL of an uploaded file.
DefaultUrl == "/video.mp4"
Urls == {"", DefaultUrl, "http:", "blob:"}

\* Before any export request was served, before any download was asked.
NoFilter == [cuts |-> <<>>, duration |-> 0, segments |-> <<>>]
NoReply == [filename |-> <<>>, status |-> 0, read |-> FALSE, attachment |-> FALSE]
\* A request of the encoding service that has not arrived yet.
NoJob == [stage |-> "idle", videoUrl |-> "", cuts |-> "missing", timestamp |-> -1,
          cause |-> "", status |-> 0, error |-> "", message |-> FALSE]

Buf == {"A", "B"}
Other(b) == IF b = "A" THEN "B" ELSE "A"
None == [s |-> -1, e |-> -1]

\* Times the pointer can reach on the timeline during a drag (xToEff input).
DragPoints == {10000, 15000, 15001}
\* Selections cut in the insertion histories ([start, end], ms).
InsSpans == {<<2000, 4000>>, <<6000, 8000>>, <<3000, 7000>>, <<10000, 15000>>,
             <<20000, 25000>>, <<14000, 21000>>, <<5000, 7000>>, <<2050, 4050>>,
             <<4001, 6000>>}
\* Durations of the media resources that can be loaded.
MediaDurs == {60000}
\* Positions at which a playing element is observed (timeupdate cadence).
PlayPoints == {27200, 30000}
\* Values of the player's seek slider.
SeekPoints == {27200}
\* Progress values k (in 1/1000) at which animation frames sample a ramp.
FramePoints == {500, 1000}

Max(a, b) == IF a >= b THEN a ELSE b
Min(a, b) == IF a <= b THEN a ELSE b
Abs(a) == IF a >= 0 THEN a ELSE -a
clamp(v, a, b) == Max(a, Min(b, v))

(***************************************************************************)
(* Interval model: normalizeCuts, VideoEditor.tsx:77-104.                  *)
(***************************************************************************)
\* arr.sort((a, b) => a.s - b.s): stable sort by start, as an insertion of
\* each element behind the elements whose start is not greater.
RECURSIVE InsertByStart(_, _)
InsertByStart(sorted, x) ==
    IF sorted = <<>> THEN <<x>>
    ELSE IF Head(sorted).s <= x.s
         THEN <<Head(sorted)>> \o InsertByStart(Tail(sorted), x)
         ELSE <<x>> \o sorted

RECURSIVE SortByStart(_)
SortByStart(arr) ==
    IF arr = <<>> THEN <<>>
    ELSE InsertByStart(SortByStart(SubSeq(arr, 1, Len(arr) - 1)), arr[Len(arr)])

\* The merge loop (lines 86-101) with its tolerance and its end rule.
RECURSIVE MergeLoop(_, _, _, _, _, _)
MergeLoop(arr, i, current, merged, tol, keepMax) ==
    IF i > Len(arr) THEN Append(merged, current)
    ELSE LET next == arr[i] IN
         IF current.e >= next.s - tol
         THEN MergeLoop(arr, i + 1,
                        [current EXCEPT !.e = IF keepMax THEN Max(current.e, next.e)
                                              ELSE next.e],
                        merged, tol, keepMax)
         ELSE MergeLoop(arr, i + 1, next, Append(merged, current), tol, keepMax)

NormalizeWith(arr, tol, keepMax) ==
    IF Len(arr) = 0 THEN <<>>
    ELSE LET sorted == SortByStart(arr)
         IN  MergeLoop(sorted, 2, sorted[1], <<>>, tol, keepMax)

\* Faulty variant: merges only intervals that touch or overlap (tolerance dropped).
normalizeCuts_NoTolerance(arr) == NormalizeWith(arr, 0, TRUE)
\* Faulty variant: the merged end is the next interval's end, not the maximum.
normalizeCuts_NextEnd(arr) == NormalizeWith(arr, MergeEps, FALSE)
\* Faulty variant: the intervals are sorted but never merged.
normalizeCuts_Unmerged(arr) == SortByStart(arr)

normalizeCuts(arr) == NormalizeWith(arr, MergeEps, TRUE)

RECURSIVE SumLen(_, _)
SumLen(cs, i) == IF i > Len(cs) THEN 0 ELSE (cs[i].e - cs[i].s) + SumLen(cs, i + 1)

\* VideoEditor.tsx:106
totalCutLen(cs) == SumLen(cs, 1)
\* VideoEditor.tsx:108
effDuration(dur) == dur
\* Faulty variant: the cut length is added instead of subtracted.
effDurationAfterCuts_Added(dur, cs) == Max(0, dur + totalCutLen(cs))
\* VideoEditor.tsx:111-113
effDurationAfterCuts(dur, cs) == Max(0, dur - totalCutLen(cs))

(***************************************************************************)
(* Time mapper, VideoEditor.tsx:116-150.                                   *)
(***************************************************************************)
RECURSIVE RealToEffLoop(_, _, _, _)
RealToEffLoop(cs, i, shift, t) ==
    IF i > Len(cs) THEN t - shift
    ELSE LET c == cs[i] IN
         IF t >= c.e THEN RealToEffLoop(cs, i + 1, shift + (c.e - c.s), t)
         ELSE IF t > c.s THEN c.s - shift
         ELSE t - shift

\* Faulty variant: a time inside a cut is pinned to the cut's real start,
\* the shift accumulated so far is not taken off.
RECURSIVE RealToEffUnshiftedLoop(_, _, _, _)
RealToEffUnshiftedLoop(cs, i, shift, t) ==
    IF i > Len(cs) THEN t - shift
    ELSE LET c == cs[i] IN
         IF t >= c.e THEN RealToEffUnshiftedLoop(cs, i + 1, shift + (c.e - c.s), t)
         ELSE IF t > c.s THEN c.s
         ELSE t - shift

realToPlayerEff_PinUnshifted(cs, t) == RealToEffUnshiftedLoop(cs, 1, 0, t)

realToPlayerEff(cs, t) == RealToEffLoop(cs, 1, 0, t)

RECURSIVE EffToRealLoop(_, _, _, _, _)
EffToRealLoop(cs, i, shift, te, strict) ==
    IF i > Len(cs) THEN te + shift
    ELSE LET c == cs[i]
             effStart == c.s - shift
         IN  IF (IF strict THEN te > effStart ELSE te >= effStart)
             THEN EffToRealLoop(cs, i + 1, shift + (c.e - c.s), te, strict)
             ELSE te + shift

\* Faulty variant: a cut is skipped only when te is strictly past its effective start.
playerEffToReal_Strict(cs, te) == EffToRealLoop(cs, 1, 0, te, TRUE)

playerEffToReal(cs, te) == EffToRealLoop(cs, 1, 0, te, FALSE)

\* VideoEditor.tsx:139-140 (timeline axis = real axis)
realToEff(t) == t
effToReal(te) == te

RECURSIVE NextCutLoop(_, _, _)
NextCutLoop(cs, i, t) ==
    IF i > Len(cs) THEN None
    ELSE LET c == cs[i] IN
         IF t < c.e
         THEN IF t < c.s THEN c
              ELSE IF t >= c.s /\ t < c.e THEN c
              ELSE NextCutLoop(cs, i + 1, t)
         ELSE NextCutLoop(cs, i + 1, t)

RECURSIVE NextCutStartLoop(_, _, _)
NextCutStartLoop(cs, i, t) ==
    IF i > Len(cs) THEN None
    ELSE IF t < cs[i].s THEN cs[i] ELSE NextCutStartLoop(cs, i + 1, t)

\* Faulty variant: only cuts that have not started yet are found.
nextCutAfter_NotStarted(cs, t) == NextCutStartLoop(cs, 1, t)

nextCutAfter(cs, t) == NextCutLoop(cs, 1, t)

\* VideoEditor.tsx:153
effSpan(vs, ve) == Max(minSpan, ve - vs)

(***************************************************************************)
(* Playback pair helpers, VideoEditor.tsx:189-207.                         *)
(***************************************************************************)
\* active(): A if A carries 'video-visible', else B.
active(vis) == IF vis["A"] THEN "A" ELSE "B"
standby(vis) == IF active(vis) = "A" THEN "B" ELSE "A"
show(vis, b) == [vis EXCEPT ![b] = TRUE]
\* Faulty variant: hide() leaves the marker on the element.
hide_Noop(vis, b) == vis
hide(vis, b) == [vis EXCEPT ![b] = FALSE]

\* A seek assignment el.currentTime = v inside try/catch. A loaded element takes
\* it, within the media; on an element that has loaded nothing the assignment
\* either throws (ok = FALSE, the cursor stays) or is taken.
SeekDone(b, ok) == ok \/ ready[b]
SeekTo(c, b, v, ok) ==
    IF SeekDone(b, ok) THEN [c EXCEPT ![b] = clamp(v, 0, Max(0, mediaDur))] ELSE c

\* The standby target of a seek (VideoPlayer.tsx:100-101, VideoEditor.tsx:364-365).
standbyTarget(cs, real) ==
    LET nxt == nextCutAfter(cs, real)
    IN  IF nxt # None THEN Max(nxt.e, real + (nxt.e - nxt.s)) ELSE real

NoDrag == [type |-> "none", fixed |-> 0, dur |-> 0, was |-> FALSE]

\* The selection defaultSelection() sets, from the render's own state.
defaultSelection(dur, vs, ve) ==
    LET eDur == effDuration(dur) IN
    IF eDur <= 0 THEN <<0, 500>>
    ELSE LET w == Min(5000, Max(1000, eDur \div 10))
             newSelStart == clamp(vs + (effSpan(vs, ve) - w) \div 2, vs, ve - w)
         IN  <<newSelStart, newSelStart + w>>

(***************************************************************************)
(* Initial state: the component after its mount effects (state defaults of *)
(* VideoEditor.tsx:21-43, classes of VideoPlayer.tsx:112-125, volumes of   *)
(* VideoEditor.tsx:583-595, first load of VideoEditor.tsx:598-644).        *)
(***************************************************************************)
InitState(url) ==
    /\ duration = DefaultDuration
    /\ cuts = <<>>
    /\ started = FALSE
    /\ isSeeking = FALSE
    /\ scrubbing = FALSE
    /\ wasPlaying = FALSE
    /\ selEffStart = 0
    /\ selEffEnd = DefaultSelEnd
    /\ viewStart = 0
    /\ viewEnd = DefaultDuration
    /\ visible = [b \in Buf |-> b = "A"]
    /\ cur = [b \in Buf |-> 0]
    /\ vol = [b \in Buf |-> IF b = "A" THEN FullVolume ELSE 0]
    /\ paused = [b \in Buf |-> TRUE]
    /\ ready = [b \in Buf |-> FALSE]
    /\ mediaDur \in MediaDurs
    /\ metaPending = (IF url = "" THEN {} ELSE Buf)
    /\ tuPending = FALSE
    /\ ramps = <<>>
    /\ drag = NoDrag
    /\ spans = <<>>
    /\ zooms = 0
    /\ mounted = TRUE
    /\ uiLive = 1
    /\ uiArmed = TRUE
    /\ videoError = FALSE
    /\ srcGen = 0
    /\ errGen = -1
    /\ videoUrl = url
    /\ exporting = FALSE
    /\ response = "none"
    /\ sent = <<>>
    /\ blocked = <<>>
    /\ filter = NoFilter
    /\ store = {}
    /\ reply = NoReply
    /\ clock = 0
    /\ jobs = [j \in 1..MaxJobs |-> NoJob]
    /\ dirs = {}
    /\ opening = {}
    /\ disk = {}

\* The editor once the mount effect (VideoEditor.tsx:657-695) has set the
\* default source.
Init == InitState(DefaultUrl)

(***************************************************************************)
(* The effect on [videoUrl, cuts] (VideoEditor.tsx:598-644): both elements *)
(* are reloaded, which pauses them and puts their cursors back to 0.       *)
(***************************************************************************)
ReloadBoth ==
    /\ cur' = [b \in Buf |-> 0]
    /\ paused' = [b \in Buf |-> TRUE]
    /\ ready' = [b \in Buf |-> FALSE]
    /\ metaPending' = Buf
    /\ tuPending' = (tuPending \/ \E b \in Buf : cur[b] # 0)

\* show(A); hide(B); A.volume = 1; B.volume = 0 (lines 345-348, 396-399, 422-425)
ResetPair ==
    /\ visible' = hide(show(visible, "A"), "B")
    /\ vol' = [b \in Buf |-> IF b = "A" THEN FullVolume ELSE 0]

(***************************************************************************)
(* addCut, VideoEditor.tsx:302-384.                                        *)
(***************************************************************************)
\* The duplicate check of lines 322-324.
existingCut(cs, realStart, realEnd) ==
    \E i \in 1..Len(cs) :
        Abs(cs[i].s - realStart) < DupTol /\ Abs(cs[i].e - realEnd) < DupTol

\* addCut returns early (lines 307-310, 326-329).
addCutReturnsEarly(cs, ss, se) ==
    \/ se - ss < MinCutLen
    \/ existingCut(cs, effToReal(ss), effToReal(se))

\* Faulty variant: the two ends of the new interval are exchanged.
insertCut_Swapped(cs, ss, se) ==
    IF addCutReturnsEarly(cs, ss, se) THEN cs
    ELSE normalizeCuts(Append(cs, [s |-> effToReal(se), e |-> effToReal(ss)]))

\* The cut array after addCut for the selection [ss, se].
insertCut(cs, ss, se) ==
    IF addCutReturnsEarly(cs, ss, se) THEN cs
    ELSE normalizeCuts(Append(cs, [s |-> effToReal(ss), e |-> effToReal(se)]))

\* addCut for the selection [ss, se]; the reset of lines 342-376 seeks both
\* elements and the effect on [videoUrl, cuts] then reloads them.
addCutAt(ss, se) ==
    IF addCutReturnsEarly(cuts, ss, se)
    THEN UNCHANGED <<editorVars, visible, cur, vol, paused, ready, mediaDur,
                     metaPending, tuPending, ramps, drag>>
    ELSE
    /\ cuts' = insertCut(cuts, ss, se)
    /\ ResetPair
    /\ ReloadBoth
    /\ LET newViewStart == clamp(viewStart, 0,
                                 Max(0, effDuration(duration) - effSpan(viewStart, viewEnd)))
           newViewEnd == clamp(newViewStart + effSpan(viewStart, viewEnd), minSpan,
                               effDuration(duration))
           sel == defaultSelection(duration, viewStart, viewEnd)
       IN  /\ viewStart' = newViewStart
           /\ viewEnd' = newViewEnd
           /\ selEffStart' = sel[1]
           /\ selEffEnd' = sel[2]
    /\ UNCHANGED <<duration, started, isSeeking, scrubbing, wasPlaying, mediaDur,
                   ramps, drag>>

addCut == addCutAt(selEffStart, selEffEnd)

(***************************************************************************)
(* removeCut, VideoEditor.tsx:411-434; clearAllCuts, 387-408.              *)
(***************************************************************************)
\* Faulty variant: the first interval is deleted whatever the position.
RemoveAt_First(cs, index) == Tail(cs)

RemoveAt(cs, index) == SubSeq(cs, 1, index - 1) \o SubSeq(cs, index + 1, Len(cs))

removeCut(index) ==
    /\ index \in 1..Len(cuts)
    /\ cuts' = normalizeCuts(RemoveAt(cuts, index))
    /\ ResetPair
    /\ ReloadBoth
    /\ LET sel == defaultSelection(duration, viewStart, viewEnd)
       IN  /\ viewStart' = 0
           /\ viewEnd' = effDuration(duration)
           /\ selEffStart' = sel[1]
           /\ selEffEnd' = sel[2]
    /\ UNCHANGED <<duration, started, isSeeking, scrubbing, wasPlaying, mediaDur,
                   ramps, drag>>

\* The button is rendered only when there are cuts (CutsList.tsx:22-36).
clearAllCuts ==
    /\ Len(cuts) > 0
    /\ cuts' = <<>>
    /\ ResetPair
    /\ ReloadBoth
    /\ LET sel == defaultSelection(duration, viewStart, viewEnd)
       IN  /\ viewStart' = 0
           /\ viewEnd' = effDuration(duration)
           /\ selEffStart' = sel[1]
           /\ selEffEnd' = sel[2]
    /\ UNCHANGED <<duration, started, isSeeking, scrubbing, wasPlaying, mediaDur,
                   ramps, drag>>

(***************************************************************************)
(* New media: handleVideoSelect (451-473), handleClearVideo (475-495).     *)
(***************************************************************************)
\* Faulty variant: the cut set is kept.
handleVideoSelect_KeepsCuts(d) ==
    /\ cuts' = cuts
    /\ started' = FALSE
    /\ isSeeking' = FALSE
    /\ scrubbing' = FALSE
    /\ wasPlaying' = FALSE
    /\ mediaDur' = d
    /\ ReloadBoth
    /\ UNCHANGED <<duration, selEffStart, selEffEnd, viewStart, viewEnd, visible,
                   vol, ramps, drag>>

handleVideoSelect(d) ==
    /\ cuts' = <<>>
    /\ started' = FALSE
    /\ isSeeking' = FALSE
    /\ scrubbing' = FALSE
    /\ wasPlaying' = FALSE
    /\ mediaDur' = d
    /\ ReloadBoth
    /\ UNCHANGED <<duration, selEffStart, selEffEnd, viewStart, viewEnd, visible,
                   vol, ramps, drag>>

handleClearVideo(d) ==
    /\ Len(cuts) > 0 \/ started \/ isSeeking \/ scrubbing \/ wasPlaying \/ d # mediaDur
    /\ handleVideoSelect(d)

(***************************************************************************)
(* onMeta, VideoEditor.tsx:556-580, on 'loadedmetadata' of either element. *)
(***************************************************************************)
onMeta(b) ==
    /\ b \in metaPending
    /\ metaPending' = metaPending \ {b}
    /\ ready' = [ready EXCEPT ![b] = TRUE]
    /\ LET dur == mediaDur
           w == Min(5000, Max(1000, dur \div 10))
           newSelStart == clamp(0, 0, dur - w)
       IN  /\ duration' = dur
           /\ viewStart' = 0
           /\ viewEnd' = dur
           /\ selEffStart' = newSelStart
           /\ selEffEnd' = newSelStart + w
    /\ UNCHANGED <<cuts, started, isSeeking, scrubbing, wasPlaying, visible, cur,
                   vol, paused, mediaDur, tuPending, ramps, drag>>

(***************************************************************************)
(* Player controls, VideoPlayer.tsx:54-109.                                *)
(***************************************************************************)
handlePlayPause ==
    /\ started' = TRUE
    /\ paused' = IF paused[active(visible)]
                 THEN [b \in Buf |-> FALSE]
                 ELSE [b \in Buf |-> TRUE]
    /\ UNCHANGED <<duration, cuts, isSeeking, scrubbing, wasPlaying, selEffStart,
                   selEffEnd, viewStart, viewEnd, visible, cur, vol, ready,
                   mediaDur, metaPending, tuPending, ramps, drag>>

\* The slider's input event at value effVal; okA, okB: the seek assignment of
\* the active, of the standby element did not throw.
handleSeekInput(effVal, okA, okB) ==
    /\ effVal <= effDurationAfterCuts(duration, cuts)
    /\ isSeeking' = TRUE
    /\ LET real == playerEffToReal(cuts, effVal)
           A == active(visible)
           B == Other(A)
       IN  cur' = SeekTo(SeekTo(cur, A, real, okA), B, standbyTarget(cuts, real), okB)
    /\ tuPending' = (tuPending \/ SeekDone(active(visible), okA)
                              \/ SeekDone(standby(visible), okB))
    /\ UNCHANGED <<duration, cuts, started, scrubbing, wasPlaying, selEffStart,
                   selEffEnd, viewStart, viewEnd, visible, vol, paused, ready,
                   mediaDur, metaPending, ramps, drag>>

handleSeekChange ==
    /\ isSeeking
    /\ isSeeking' = FALSE
    /\ UNCHANGED <<duration, cuts, started, scrubbing, wasPlaying, selEffStart,
                   selEffEnd, viewStart, viewEnd, visible, cur, vol, paused, ready,
                   mediaDur, metaPending, tuPending, ramps, drag>>

(***************************************************************************)
(* Handle drag, Timeline.tsx:222-312. The handlers of one drag close over  *)
(* the selection and duration of the render in which the drag began; of    *)
(* that selection a drag reads only the end it does not move (fixed).      *)
(***************************************************************************)
startHandleDrag(dragType) ==
    /\ drag.type = "none"
    /\ scrubbing' = TRUE
    /\ wasPlaying' = ~paused[active(visible)]
    /\ paused' = [paused EXCEPT ![active(visible)] = TRUE]
    /\ LET initialTime == IF dragType = "start" THEN selEffStart ELSE selEffEnd
           clampedRealTime == clamp(effToReal(initialTime), 0, duration - 1)
       IN  /\ cur' = IF ready["A"] THEN SeekTo(cur, "A", clampedRealTime, TRUE) ELSE cur
           /\ tuPending' = (tuPending \/ ready["A"])
    /\ drag' = [type |-> dragType,
                fixed |-> IF dragType = "start" THEN selEffEnd ELSE selEffStart,
                dur |-> duration, was |-> ~paused[active(visible)]]
    /\ UNCHANGED <<duration, cuts, started, isSeeking, selEffStart, selEffEnd,
                   viewStart, viewEnd, visible, vol, ready, mediaDur, metaPending,
                   ramps>>

\* mousemove at timeline time x; preview: the 16 ms throttle lets this move seek.
handleDrag(x, preview) ==
    /\ drag.type # "none"
    /\ LET newTime == clamp(x, 0, effDuration(drag.dur))
           clampedRealTime == clamp(effToReal(newTime), 0, drag.dur - 1)
       IN  /\ cur' = IF preview /\ ready["A"]
                     THEN SeekTo(cur, "A", clampedRealTime, TRUE) ELSE cur
           /\ tuPending' = (tuPending \/ (preview /\ ready["A"]))
           /\ IF drag.type = "start"
              THEN /\ selEffStart' = clamp(newTime, 0, drag.fixed - HandleGap)
                   /\ selEffEnd' = drag.fixed
              ELSE /\ selEffStart' = drag.fixed
                   /\ selEffEnd' = clamp(newTime, drag.fixed + HandleGap,
                                         effDuration(drag.dur))
    /\ UNCHANGED <<duration, cuts, started, isSeeking, scrubbing, wasPlaying,
                   viewStart, viewEnd, visible, vol, paused, ready, mediaDur,
                   metaPending, ramps, drag>>

handleDragEnd ==
    /\ drag.type # "none"
    /\ drag' = NoDrag
    /\ scrubbing' = FALSE
    /\ paused' = IF drag.was THEN [paused EXCEPT ![active(visible)] = FALSE] ELSE paused
    /\ UNCHANGED <<duration, cuts, started, isSeeking, wasPlaying, selEffStart,
                   selEffEnd, viewStart, viewEnd, visible, cur, vol, ready,
                   mediaDur, metaPending, tuPending, ramps>>

(***************************************************************************)
(* crossToStandby, VideoEditor.tsx:210-255, and its animation-frame step.  *)
(***************************************************************************)
\* The visibility after the swap (lines 211-217).
crossVisible(vis) == LET from == active(vis)
                         to == standby(vis)
                     IN  hide(show(vis, to), from)

\* The ramp callback registered by the swap (lines 220-222, 254).
crossRamp(vis, v) == [from |-> active(vis), to |-> standby(vis),
                      fromStart |-> v[active(vis)], toStart |-> v[standby(vis)]]

\* Faulty variant: the outgoing buffer is left playing when the ramp ends.
step_NoPause(i, k) ==
    /\ i \in 1..Len(ramps)
    /\ LET r == ramps[i]
           newFromVolume == (r.fromStart * (FullVolume - k)) \div FullVolume
           newToVolume == r.toStart + ((FullVolume - r.toStart) * k) \div FullVolume
       IN  /\ vol' = [vol EXCEPT ![r.from] = clamp(newFromVolume, 0, FullVolume),
                                 ![r.to] = clamp(newToVolume, 0, FullVolume)]
           /\ IF k < FullVolume
              THEN UNCHANGED <<ramps, paused>>
              ELSE /\ ramps' = RemoveAt(ramps, i)
                   /\ paused' = paused
    /\ UNCHANGED <<editorVars, visible, cur, ready, mediaDur, metaPending,
                   tuPending, drag>>

\* One animation frame of ramp i at progress k = min(1, (ts - t0) / FADE_MS).
step(i, k) ==
    /\ i \in 1..Len(ramps)
    /\ LET r == ramps[i]
           newFromVolume == (r.fromStart * (FullVolume - k)) \div FullVolume
           newToVolume == r.toStart + ((FullVolume - r.toStart) * k) \div FullVolume
       IN  /\ vol' = [vol EXCEPT ![r.from] = clamp(newFromVolume, 0, FullVolume),
                                 ![r.to] = clamp(newToVolume, 0, FullVolume)]
           /\ IF k < FullVolume
              THEN UNCHANGED <<ramps, paused>>
              ELSE /\ ramps' = RemoveAt(ramps, i)
                   /\ paused' = [paused EXCEPT ![r.from] = TRUE]
    /\ UNCHANGED <<editorVars, visible, cur, ready, mediaDur, metaPending,
                   tuPending, drag>>

(***************************************************************************)
(* tickSkip, VideoEditor.tsx:258-299, on 'timeupdate'/'playing' of either  *)
(* element: a pending 'timeupdate' of a seek or a reload, or a loaded      *)
(* element that is playing. ok1, ok2: the two standby seek assignments did *)
(* not throw.                                                              *)
(***************************************************************************)
tickSkipWithin(maxRamps, ok1, ok2) ==
    /\ tuPending \/ \E b \in Buf : ~paused[b] /\ ready[b]
    /\ LET A == active(visible)
           B == standby(visible)
           t == cur[A]
           cut == nextCutAfter(cuts, t)
           len == cut.e - cut.s
           preroll == cut # None /\ t >= cut.s - PrerollMargin
           skip == cut # None /\ t >= cut.s /\ t < cut.e
           cur1 == IF preroll THEN SeekTo(cur, B, Max(cut.e, t + len), ok1) ELSE cur
           cur2 == IF skip THEN SeekTo(cur1, B, Max(cur1[B], cut.e), ok2) ELSE cur1
       IN  /\ cur' = cur2
           /\ tuPending' = ((preroll /\ SeekDone(B, ok1)) \/ (skip /\ SeekDone(B, ok2)))
           /\ IF skip
              THEN /\ Len(ramps) < maxRamps
                   /\ visible' = crossVisible(visible)
                   /\ paused' = [paused EXCEPT ![B] = FALSE]
                   /\ ramps' = Append(ramps, crossRamp(visible, vol))
              ELSE UNCHANGED <<visible, paused, ramps>>
    /\ UNCHANGED <<editorVars, vol, ready, mediaDur, metaPending, drag>>

\* Faulty variant: inside a cut the standby jumps to the end of the cut
\* without the pre-roll assignment.
tickSkip_JumpFirst(ok1, ok2) ==
    /\ tuPending \/ \E b \in Buf : ~paused[b] /\ ready[b]
    /\ LET A == active(visible)
           B == standby(visible)
           t == cur[A]
           cut == nextCutAfter(cuts, t)
           len == cut.e - cut.s
           skip == cut # None /\ t >= cut.s /\ t < cut.e
           preroll == cut # None /\ t >= cut.s - PrerollMargin /\ ~skip
           cur1 == IF preroll THEN SeekTo(cur, B, Max(cut.e, t + len), ok1) ELSE cur
           cur2 == IF skip THEN SeekTo(cur1, B, Max(cur1[B], cut.e), ok2) ELSE cur1
       IN  /\ cur' = cur2
           /\ tuPending' = ((preroll /\ SeekDone(B, ok1)) \/ (skip /\ SeekDone(B, ok2)))
           /\ IF skip
              THEN /\ Len(ramps) < MaxRamps
                   /\ visible' = crossVisible(visible)
                   /\ paused' = [paused EXCEPT ![B] = FALSE]
                   /\ ramps' = Append(ramps, crossRamp(visible, vol))
              ELSE UNCHANGED <<visible, paused, ramps>>
    /\ UNCHANGED <<editorVars, vol, ready, mediaDur, metaPending, drag>>

\* Faulty variant: the pre-roll waits for the start of the cut.
tickSkip_NoMargin(ok1, ok2) ==
    /\ tuPending \/ \E b \in Buf : ~paused[b] /\ ready[b]
    /\ LET A == active(visible)
           B == standby(visible)
           t == cur[A]
           cut == nextCutAfter(cuts, t)
           len == cut.e - cut.s
           skip == cut # None /\ t >= cut.s /\ t < cut.e
           preroll == cut # None /\ t >= cut.s
           cur1 == IF preroll THEN SeekTo(cur, B, Max(cut.e, t + len), ok1) ELSE cur
           cur2 == IF skip THEN SeekTo(cur1, B, Max(cur1[B], cut.e), ok2) ELSE cur1
       IN  /\ cur' = cur2
           /\ tuPending' = ((preroll /\ SeekDone(B, ok1)) \/ (skip /\ SeekDone(B, ok2)))
           /\ IF skip
              THEN /\ Len(ramps) < MaxRamps
                   /\ visible' = crossVisible(visible)
                   /\ paused' = [paused EXCEPT ![B] = FALSE]
                   /\ ramps' = Append(ramps, crossRamp(visible, vol))
              ELSE UNCHANGED <<visible, paused, ramps>>
    /\ UNCHANGED <<editorVars, vol, ready, mediaDur, metaPending, drag>>

\* tickSkip with at most MaxRamps crossfades running at a time.
tickSkip(ok1, ok2) == tickSkipWithin(MaxRamps, ok1, ok2)

(***************************************************************************)
(* The media engine: a playing, loaded element moves on to the next        *)
(* position at which it is observed.                                       *)
(***************************************************************************)
Advance(b) ==
    /\ ~paused[b]
    /\ ready[b]
    /\ \E p \in PlayPoints \cup {mediaDur} :
          /\ p > cur[b]
          /\ p <= mediaDur
          /\ \A q \in PlayPoints \cup {mediaDur} : q > cur[b] => p <= q
          /\ cur' = [cur EXCEPT ![b] = p]
    /\ UNCHANGED <<editorVars, visible, vol, paused, ready, mediaDur, metaPending,
                   tuPending, ramps, drag>>

(***************************************************************************)
(* The player session: every handler of the editor and the player, and the *)
(* media engine, with the selection left to the program (defaultSelection, *)
(* onMeta). The pointer is one: while it holds the seek slider it clicks   *)
(* nothing else.                                                           *)
(***************************************************************************)
PointerFree == drag.type = "none" /\ ~isSeeking

Next ==
    \/ PointerFree /\ addCut /\ UNCHANGED histVars
    \/ \E index \in 1..Len(cuts) : PointerFree /\ removeCut(index) /\ UNCHANGED histVars
    \/ PointerFree /\ clearAllCuts /\ UNCHANGED histVars
    \/ \E d \in MediaDurs : PointerFree /\ handleVideoSelect(d) /\ UNCHANGED histVars
    \/ \E d \in MediaDurs : PointerFree /\ handleClearVideo(d) /\ UNCHANGED histVars
    \/ \E b \in Buf : onMeta(b) /\ UNCHANGED histVars
    \/ PointerFree /\ handlePlayPause /\ UNCHANGED histVars
    \/ \E v \in SeekPoints, okA, okB \in BOOLEAN :
          handleSeekInput(v, okA, okB) /\ UNCHANGED histVars
    \/ handleSeekChange /\ UNCHANGED histVars
    \/ \E i \in 1..Len(ramps), k \in FramePoints : step(i, k) /\ UNCHANGED histVars
    \/ \E ok1, ok2 \in BOOLEAN : tickSkip(ok1, ok2) /\ UNCHANGED histVars
    \/ \E b \in Buf : Advance(b) /\ UNCHANGED histVars

Spec == Init /\ [][Next]_vars

(***************************************************************************)
(* The editing session: the handles are dragged over the timeline and the  *)
(* cut set is edited; nothing is played.                                   *)
(***************************************************************************)
NextEdit ==
    \/ \E ty \in {"start", "end"} : PointerFree /\ startHandleDrag(ty) /\ UNCHANGED histVars
    \/ \E x \in DragPoints, pv \in BOOLEAN : handleDrag(x, pv) /\ UNCHANGED histVars
    \/ handleDragEnd /\ UNCHANGED histVars
    \/ PointerFree /\ addCut /\ UNCHANGED histVars
    \/ \E index \in 1..Len(cuts) : PointerFree /\ removeCut(index) /\ UNCHANGED histVars
    \/ PointerFree /\ clearAllCuts /\ UNCHANGED histVars
    \/ \E d \in MediaDurs : PointerFree /\ handleVideoSelect(d) /\ UNCHANGED histVars
    \/ \E d \in MediaDurs : PointerFree /\ handleClearVideo(d) /\ UNCHANGED histVars
    \/ \E b \in Buf : onMeta(b) /\ UNCHANGED histVars

SpecEdit == Init /\ [][NextEdit]_vars

(***************************************************************************)
(* Insertion histories: the handles are dragged to a span of InsSpans      *)
(* (handleDrag reaches every selection at least HandleGap wide inside the  *)
(* duration) and the span is cut; spans records the spans passed to addCut *)
(* that no removeCut or clearAllCuts has taken away since.                 *)
(***************************************************************************)
Span(sp) == [s |-> sp[1], e |-> sp[2]]
Within(x, c) == c.s <= x.s /\ x.e <= c.e

RECURSIVE Outside(_, _)
Outside(sq, c) ==
    IF sq = <<>> THEN <<>>
    ELSE IF Within(Head(sq), c) THEN Outside(Tail(sq), c)
         ELSE <<Head(sq)>> \o Outside(Tail(sq), c)

InsertSpan(sp) ==
    /\ Len(spans) < MaxSpans
    /\ sp[2] <= effDuration(duration)
    /\ addCutAt(sp[1], sp[2])
    /\ spans' = Append(spans, Span(sp))
    /\ UNCHANGED <<zooms, playerVars, exportVars>>

RemoveSpan(index) ==
    /\ removeCut(index)
    /\ spans' = Outside(spans, cuts[index])
    /\ UNCHANGED <<zooms, playerVars, exportVars>>

ClearSpans ==
    /\ clearAllCuts
    /\ spans' = <<>>
    /\ UNCHANGED <<zooms, playerVars, exportVars>>

NextIns ==
    \/ \E sp \in InsSpans : InsertSpan(sp)
    \/ \E index \in 1..Len(cuts) : RemoveSpan(index)
    \/ ClearSpans
    \/ \E b \in Buf : onMeta(b) /\ UNCHANGED histVars

SpecIns == Init /\ [][NextIns]_vars

(***************************************************************************)
(* Properties of the cut set.                                              *)
(***************************************************************************)
eff == effDurationAfterCuts(duration, cuts)

\* C1: after any sequence of addCut, removeCut, clearAllCuts and media loads
\* the cut set is sorted by start and pairwise disjoint, every gap between
\* consecutive stored intervals being strictly greater than MergeEps (1 ms).
C1_SortedDisjoint ==
    /\ \A i \in 1..Len(cuts) - 1 : cuts[i].s < cuts[i + 1].s
    /\ \A i, j \in 1..Len(cuts) : i < j => cuts[j].s - cuts[i].e > MergeEps

\* Two stored intervals, the second one cut while the first was stored.
C1_Witness ==
    /\ Len(cuts) = 2
    /\ cuts[1].e = 15000
    /\ cuts[2].s = 27500

\* Real times the mapping is probed at: both sides of every stored interval.
MapProbes(cs) ==
    {0, 1000, 9000, 30000}
        \cup {cs[i].s - 1 : i \in 1..Len(cs)}
        \cup {cs[i].e : i \in 1..Len(cs)}
        \cup {cs[i].e + 1 : i \in 1..Len(cs)}

OutsideCuts(cs, t) == t >= 0 /\ \A i \in 1..Len(cs) : t < cs[i].s \/ t >= cs[i].e

\* C2: for every real time t outside every stored cut,
\* playerEffToReal(realToPlayerEff(t)) is t within 1 ms.
C2_RoundTrip ==
    \A t \in MapProbes(cuts) :
        OutsideCuts(cuts, t) =>
            Abs(playerEffToReal(cuts, realToPlayerEff(cuts, t)) - t) <= MergeEps

\* A time behind two stored intervals is shifted by both and mapped back.
C2_Witness ==
    /\ cuts = <<[s |-> 2000, e |-> 4000], [s |-> 6000, e |-> 8000]>>
    /\ realToPlayerEff(cuts, 9000) = 5000
    /\ playerEffToReal(cuts, 5000) = 9000

\* C7: inserting an interval that lies inside a stored interval (the same
\* interval a second time included) leaves the cut set unchanged.
C7_ContainedInsertIsNoop ==
    [][(/\ Len(spans') = Len(spans) + 1
        /\ \E i \in 1..Len(cuts) : Within(spans'[Len(spans')], cuts[i]))
       => cuts' = cuts]_vars

\* [5000, 7000] was cut while [3000, 7000] was stored.
C7_Witness ==
    /\ spans = <<[s |-> 3000, e |-> 7000], [s |-> 5000, e |-> 7000]>>
    /\ cuts = <<[s |-> 3000, e |-> 7000]>>

\* C9: the effective duration never increases when a cut is added, never
\* decreases when a cut is removed or the set is cleared, and is never
\* negative.
C9_MonotonicShrink ==
    /\ [][/\ (\E sp \in InsSpans : InsertSpan(sp))
                => effDurationAfterCuts(duration', cuts') <= eff
          /\ ((\E index \in 1..Len(cuts) : RemoveSpan(index)) \/ ClearSpans)
                => effDurationAfterCuts(duration', cuts') >= eff]_vars
    /\ [](eff >= 0)

\* A 60 s media with the cut [10 s, 15 s] plays for 55 s.
C9_Witness ==
    /\ duration = 60000
    /\ cuts = <<[s |-> 10000, e |-> 15000]>>
    /\ eff = 55000

\* Real times nextCutAfter is probed at.
CutProbes(cs) ==
    {0, 6000, 8000, 30000}
        \cup {cs[i].s : i \in 1..Len(cs)}
        \cup {cs[i].e - 1 : i \in 1..Len(cs)}
        \cup {cs[i].e : i \in 1..Len(cs)}

\* C10: nextCutAfter(t) is the first stored interval, in sorted order, with
\* t < end, whether or not t has reached its start, and none when there is
\* no such interval.
C10_NextCutAfter ==
    \A t \in CutProbes(cuts) :
        LET r == nextCutAfter(cuts, t)
        IN  /\ (r = None) <=> (\A i \in 1..Len(cuts) : cuts[i].e <= t)
            /\ r # None =>
                 \E i \in 1..Len(cuts) :
                    /\ r = cuts[i]
                    /\ t < cuts[i].e
                    /\ \A j \in 1..(i - 1) : cuts[j].e <= t

\* With [5 s, 7 s] stored: at 6 s the interval itself, at 8 s none.
C10_Witness ==
    /\ cuts = <<[s |-> 5000, e |-> 7000]>>
    /\ nextCutAfter(cuts, 6000) = [s |-> 5000, e |-> 7000]
    /\ nextCutAfter(cuts, 8000) = None

(***************************************************************************)
(* Insertion order and the cover of the inserted spans.                    *)
(***************************************************************************)
Perms(n) == {f \in [1..n -> 1..n] : \A i, j \in 1..n : f[i] = f[j] => i = j}

RECURSIVE InsertAll(_, _)
InsertAll(cs, sq) ==
    IF sq = <<>> THEN cs
    ELSE InsertAll(insertCut(cs, realToEff(Head(sq).s), realToEff(Head(sq).e)), Tail(sq))

\* C6: inserting the same spans through addCut in any permuted order yields
\* the cut set that is stored.
C6_OrderIndependent ==
    \A f \in Perms(Len(spans)) :
        InsertAll(<<>>, [i \in 1..Len(spans) |-> spans[f[i]]]) = cuts

\* C8: after every insert the cut set is the minimal disjoint cover of the
\* inserted spans: every span lies in a stored interval, every stored
\* interval starts and ends with a span and is covered without a hole, and
\* the stored intervals are sorted and apart.
C8_MinimalCover ==
    /\ \A k \in 1..Len(spans) : \E i \in 1..Len(cuts) : Within(spans[k], cuts[i])
    /\ \A i \in 1..Len(cuts) :
          /\ \E k \in 1..Len(spans) : spans[k].s = cuts[i].s
          /\ \E k \in 1..Len(spans) : spans[k].e = cuts[i].e
          /\ \A k \in 1..Len(spans) :
                (Within(spans[k], cuts[i]) /\ spans[k].e < cuts[i].e) =>
                    \E m \in 1..Len(spans) :
                        /\ spans[m].s <= spans[k].e + MergeEps
                        /\ spans[m].e > spans[k].e
    /\ \A i \in 1..Len(cuts) - 1 : cuts[i + 1].s - cuts[i].e > MergeEps

(***************************************************************************)
(* Properties of the two buffers.                                          *)
(***************************************************************************)
\* C3: in every reachable state exactly one of the two buffers is visible
\* and active and the other one is hidden and standby.
C3_OneVisible ==
    /\ visible["A"] # visible["B"]
    /\ active(visible) # standby(visible)
    /\ visible[active(visible)]
    /\ ~visible[standby(visible)]

\* B became the active buffer through crossToStandby.
C3_Witness ==
    /\ visible["B"]
    /\ ~visible["A"]
    /\ ramps # <<>>

\* A step in which crossToStandby starts a swap.
SwapStarts == Len(ramps') = Len(ramps) + 1

\* C4: a swap starts only if the cursor of the standby buffer is at or
\* after the end of the cut that is being skipped.
C4_SwapOnlyPrepared ==
    [][SwapStarts =>
         cur'[standby(visible)] >= nextCutAfter(cuts, cur[active(visible)]).e]_vars

\* C5: while isSeeking or scrubbing is set, tickSkip writes no cursor and
\* starts no swap.
C5_SuspendedWhileSeeking ==
    [][((isSeeking \/ scrubbing) /\ \E ok1, ok2 \in BOOLEAN : tickSkip(ok1, ok2))
         => (cur' = cur /\ visible' = visible /\ ramps' = ramps)]_vars

(***************************************************************************)
(* The real -> effective mapping against the cut material before t.        *)
(***************************************************************************)
\* Length of the cut material of cs[i..] lying before the real time t.
RECURSIVE CutBefore(_, _, _)
CutBefore(cs, i, t) ==
    IF i > Len(cs) THEN 0
    ELSE Max(0, Min(t, cs[i].e) - cs[i].s) + CutBefore(cs, i + 1, t)

\* Real times inside, at the ends of and around every stored interval.
EffProbes(cs) ==
    MapProbes(cs) \cup {20000}
        \cup {cs[i].s : i \in 1..Len(cs)}
        \cup {cs[i].s + 1 : i \in 1..Len(cs)}
        \cup {cs[i].e - 1 : i \in 1..Len(cs)}

\* C11: realToPlayerEff(t) is t minus the total length of cut material before
\* t: a cut that ended at or before t counts in full, a time inside a cut is
\* pinned to the cut's start minus the shift so far, later cuts count nothing.
C11_RealToEff ==
    \A t \in EffProbes(cuts) :
        t >= 0 =>
            /\ realToPlayerEff(cuts, t) = t - CutBefore(cuts, 1, t)
            /\ \A i \in 1..Len(cuts) :
                  (cuts[i].s < t /\ t < cuts[i].e) =>
                      realToPlayerEff(cuts, t) = cuts[i].s - CutBefore(cuts, 1, cuts[i].s)

\* With {10 s, 15 s} stored, 20 s maps to 15 s.
C11_Witness ==
    /\ cuts = <<[s |-> 10000, e |-> 15000]>>
    /\ realToPlayerEff(cuts, 20000) = 15000
    /\ realToPlayerEff(cuts, 12000) = 10000

(***************************************************************************)
(* Viewport, VideoEditor.tsx:153-186. The setters of one handler all read  *)
(* the state of the render the handler was created in.                     *)
(***************************************************************************)
\* Zoom factors as <<numerator, denominator>>: zoom in 1.5, zoom out 1/1.5
\* (VideoEditor.tsx:734-735), double click 2.0 (Timeline.tsx:333).
ZoomFactors == {<<3, 2>>, <<2, 3>>, <<2, 1>>}
\* The time spans of the zoom presets (ZoomControls keys 1-5), ms.
ZoomPresets == {30000, 10000, 5000, 1000, 500}
\* Durations of the media files the user can pick.
ViewMediaDurs == {60000, 12000}
\* The presets pressed in the viewport session.
ViewPresets == {30000, 10000}
ZoomPadding == 500
\* leftRatio is kept in 1/RatioUnit.
RatioUnit == 1000

nonViewVars == <<duration, cuts, started, isSeeking, scrubbing, wasPlaying,
                 selEffStart, selEffEnd, visible, cur, vol, paused, ready,
                 mediaDur, metaPending, tuPending, ramps, drag>>

resetViewToAll ==
    /\ viewStart' = 0
    /\ viewEnd' = effDuration(duration)
    /\ UNCHANGED nonViewVars

zoomAt(anchorEff, factor) ==
    /\ LET span == effSpan(viewStart, viewEnd)
           newSpan == clamp((span * factor[2]) \div factor[1], minSpan,
                            Max(minSpan, effDuration(duration)))
           leftRatio == clamp(((anchorEff - viewStart) * RatioUnit) \div span,
                              0, RatioUnit)
           newViewStart == clamp(anchorEff - (leftRatio * newSpan) \div RatioUnit, 0,
                                 Max(0, effDuration(duration) - newSpan))
       IN  /\ viewStart' = newViewStart
           /\ viewEnd' = newViewStart + newSpan
    /\ UNCHANGED nonViewVars

zoomToSelection ==
    /\ ~(selEffEnd - selEffStart < minSpan)
    /\ LET padding == Max(ZoomPadding, (selEffEnd - selEffStart) \div 10)
       IN  /\ viewStart' = Max(0, selEffStart - padding)
           /\ viewEnd' = Min(effDuration(duration), selEffEnd + padding)
    /\ UNCHANGED nonViewVars

zoomToTimeSpan(seconds) ==
    /\ LET center == (selEffStart + selEffEnd) \div 2
           halfSpan == seconds \div 2
       IN  /\ viewStart' = clamp(center - halfSpan, 0,
                                 Max(0, effDuration(duration) - seconds))
           /\ viewEnd' = clamp(viewStart + seconds, seconds, effDuration(duration))
    /\ UNCHANGED nonViewVars

(***************************************************************************)
(* The viewport session: zoom controls, double click on the timeline, cut  *)
(* editing with the selection the program sets, media files of different   *)
(* lengths. zooms counts the zoom operations since onMeta last put the     *)
(* view and the selection back, up to MaxZooms.                            *)
(***************************************************************************)
ZoomStep(A) ==
    /\ zooms < MaxZooms
    /\ A
    /\ zooms' = zooms + 1
    /\ UNCHANGED <<spans, playerVars, exportVars>>

NextView ==
    \/ ZoomStep(resetViewToAll)
    \/ \E f \in ZoomFactors \ {<<2, 1>>} :
          ZoomStep(zoomAt((selEffStart + selEffEnd) \div 2, f))
    \/ \E x \in DragPoints : ZoomStep(zoomAt(clamp(x, 0, effDuration(duration)), <<2, 1>>))
    \/ ZoomStep(zoomToSelection)
    \/ \E seconds \in ViewPresets : ZoomStep(zoomToTimeSpan(seconds))
    \/ Len(cuts) < MaxViewCuts /\ addCut /\ UNCHANGED histVars
    \/ \E index \in 1..Len(cuts) : removeCut(index) /\ UNCHANGED histVars
    \/ clearAllCuts /\ UNCHANGED histVars
    \/ \E d \in ViewMediaDurs : handleVideoSelect(d) /\ UNCHANGED histVars
    \/ \E b \in Buf : onMeta(b) /\ zooms' = 0 /\ UNCHANGED <<spans, playerVars, exportVars>>

SpecView == Init /\ [][NextView]_vars

(***************************************************************************)
(* Bounds of the cut set, the selection and the viewport.                  *)
(***************************************************************************)
\* C12: in every reachable state no stored interval extends past the current
\* media duration.
C12_CutsWithinDuration ==
    \A i \in 1..Len(cuts) : cuts[i].e <= duration

\* C13: every stored interval is well formed: start >= 0 and end > start.
C13_WellFormed ==
    \A i \in 1..Len(cuts) : cuts[i].s >= 0 /\ cuts[i].e > cuts[i].s

\* The selection dragged to [15.001 s, 32.5 s] was cut.
C13_Witness ==
    /\ Len(cuts) = 1
    /\ cuts[1] = [s |-> 15001, e |-> 32500]

\* C14: in every reachable state the selection satisfies
\* 0 <= start < end <= effective duration of the timeline axis.
C14_SelectionInAxis ==
    /\ 0 <= selEffStart
    /\ selEffStart < selEffEnd
    /\ selEffEnd <= effDuration(duration)

\* C15: in every reachable state the viewport is at least minSpan (100 ms)
\* wide and satisfies 0 <= viewStart < viewEnd <= total duration.
C15_ViewportInAxis ==
    /\ viewEnd - viewStart >= minSpan
    /\ 0 <= viewStart
    /\ viewStart < viewEnd
    /\ viewEnd <= effDuration(duration)

(***************************************************************************)
(* User seeks.                                                             *)
(***************************************************************************)
\* The pair after a user seek to the real time real: the active buffer is at
\* real, the standby buffer at the target of the nextCutAfter rule.
SeekLanded(real) ==
    /\ cur'[active(visible)] = real
    /\ cur'[standby(visible)] = standbyTarget(cuts, real)

\* C16: a user seek to the effective time te, by the player slider or by a
\* timeline drag, with both elements loaded, sets the cursor of the active
\* buffer to effToReal(te) and the cursor of the standby buffer to the
\* target of the nextCutAfter rule, whichever buffer is active.
C16_UserSeekPositionsPair ==
    [][(ready["A"] /\ ready["B"]) =>
         /\ \A v \in SeekPoints :
               handleSeekInput(v, TRUE, TRUE) => SeekLanded(playerEffToReal(cuts, v))
         /\ \A x \in DragPoints :
               handleDrag(x, TRUE) =>
                   SeekLanded(effToReal(clamp(x, 0, effDuration(drag.dur))))]_vars

(***************************************************************************)
(* The scrubbing session: handle drags while the player runs, with the cut *)
(* of the selection the program sets.                                      *)
(***************************************************************************)
\* Times the pointer reaches on the timeline in the scrubbing session.
ScrubPoints == {2000}

NextScrub ==
    \/ \E ty \in {"start", "end"} : PointerFree /\ startHandleDrag(ty) /\ UNCHANGED histVars
    \/ \E x \in ScrubPoints, pv \in BOOLEAN : handleDrag(x, pv) /\ UNCHANGED histVars
    \/ handleDragEnd /\ UNCHANGED histVars
    \/ PointerFree /\ Len(cuts) < MaxViewCuts /\ addCut /\ UNCHANGED histVars
    \/ \E b \in Buf : onMeta(b) /\ UNCHANGED histVars
    \/ PointerFree /\ handlePlayPause /\ UNCHANGED histVars
    \/ \E i \in 1..Len(ramps), k \in FramePoints : step(i, k) /\ UNCHANGED histVars
    \/ \E ok1, ok2 \in BOOLEAN : tickSkip(ok1, ok2) /\ UNCHANGED histVars
    \/ \E b \in Buf : Advance(b) /\ UNCHANGED histVars

SpecScrub == Init /\ [][NextScrub]_vars

\* C17: releasing a timeline drag restores the play/pause state of the start
\* of the drag: if the active buffer was playing it is playing after the
\* release, and if it was paused no buffer is playing after the release.
C17_ReleaseRestoresPlayState ==
    [][handleDragEnd =>
         /\ drag.was => ~paused'[active(visible')]
         /\ ~drag.was => \A b \in Buf : paused'[b]]_vars

(***************************************************************************)
(* VideoPlayer: the uiTick effect (VideoPlayer.tsx:128-153) and the error  *)
(* overlay (166-204). The effect depends on active, a function made anew   *)
(* by every render, so it is cleaned up and run again after every render   *)
(* of VideoPlayer. The displayed time (currentTime, totalTime) is left out.*)
(***************************************************************************)
\* Cleanup, cancelAnimationFrame(animationId), then the effect again.
EffectRerun ==
    /\ uiLive' = IF uiArmed THEN uiLive ELSE uiLive + 1
    /\ uiArmed' = TRUE

\* VideoPlayer renders again when the step changed state it renders from.
Render ==
    IF editorVars' # editorVars \/ videoError' # videoError
    THEN EffectRerun /\ uiLive' <= MaxLoops
    ELSE UNCHANGED <<uiLive, uiArmed>>

\* One animation frame: every pending uiTick callback runs. Mounted, each
\* one requests itself again and drops the id; unmounted, active() is null
\* and each one returns.
uiTick ==
    /\ uiLive > 0
    /\ uiLive' = IF mounted THEN uiLive ELSE 0
    /\ uiArmed' = FALSE
    /\ UNCHANGED <<editorVars, visible, cur, vol, paused, ready, mediaDur,
                   metaPending, tuPending, ramps, drag, spans, zooms, mounted,
                   videoError, srcGen, errGen, exportVars>>

\* The component is removed: the cleanup of the effect runs.
unmount ==
    /\ mounted
    /\ mounted' = FALSE
    /\ uiLive' = IF uiArmed THEN uiLive - 1 ELSE uiLive
    /\ uiArmed' = FALSE
    /\ UNCHANGED <<editorVars, visible, cur, vol, paused, ready, mediaDur,
                   metaPending, tuPending, ramps, drag, spans, zooms,
                   videoError, srcGen, errGen, exportVars>>

\* onError of element b (VideoPlayer.tsx:166-176, 191-201): the element has
\* failed to load or to decode and holds no data.
onError(b) ==
    /\ mounted
    /\ videoError' = TRUE
    /\ errGen' = srcGen
    /\ ready' = [ready EXCEPT ![b] = FALSE]
    /\ metaPending' = metaPending \ {b}
    /\ UNCHANGED <<editorVars, visible, cur, vol, paused, mediaDur, tuPending,
                   ramps, drag, spans, zooms, mounted, srcGen, exportVars>>
    /\ Render

\* onLoadedData of element b (VideoPlayer.tsx:177-181, 202-204), taken with
\* the 'loadedmetadata' of the same load: only A clears the error.
onLoadedData(b) ==
    /\ mounted
    /\ onMeta(b)
    /\ videoError' = IF b = "A" THEN FALSE ELSE videoError
    /\ Render
    /\ UNCHANGED <<spans, zooms, mounted, srcGen, errGen, exportVars>>

\* A step of the editor or of the media engine while the player is mounted.
LifeStep(A) ==
    /\ mounted
    /\ A
    /\ UNCHANGED <<spans, zooms, mounted, videoError, srcGen, errGen, exportVars>>
    /\ Render

\* A new source is loaded.
NewSource(A) ==
    /\ srcGen < MaxSources
    /\ srcGen' = srcGen + 1
    /\ mounted
    /\ A
    /\ UNCHANGED <<spans, zooms, mounted, videoError, errGen, exportVars>>
    /\ Render

NextLife ==
    \/ uiTick
    \/ unmount
    \/ \E b \in Buf : onError(b)
    \/ \E b \in Buf : onLoadedData(b)
    \/ LifeStep(PointerFree /\ Len(cuts) < MaxViewCuts /\ addCut)
    \/ LifeStep(PointerFree /\ handlePlayPause)
    \/ \E v \in SeekPoints, okA, okB \in BOOLEAN : LifeStep(handleSeekInput(v, okA, okB))
    \/ LifeStep(handleSeekChange)
    \/ \E i \in 1..Len(ramps), k \in FramePoints : LifeStep(step(i, k))
    \/ \E ok1, ok2 \in BOOLEAN : LifeStep(tickSkip(ok1, ok2))
    \/ \E b \in Buf : LifeStep(Advance(b))
    \/ \E d \in MediaDurs : NewSource(PointerFree /\ handleVideoSelect(d))
    \/ \E d \in MediaDurs : NewSource(PointerFree /\ handleClearVideo(d))

SpecLife == Init /\ [][NextLife]_vars

\* C18: the uiTick loop is cancelled on teardown and effect re-runs never
\* leave more than one self-re-arming loop alive: at most one uiTick
\* callback is pending while the player is mounted, none after the unmount.
C18_OneTickLoop ==
    uiLive <= (IF mounted THEN 1 ELSE 0)

\* C19: after a media error the error state stays set until a new source is
\* loaded, and while it is set tickSkip writes no cursor and starts no swap.
C19_ErrorDisablesDutyCycle ==
    /\ [](errGen = srcGen => videoError)
    /\ [][(videoError /\ \E ok1, ok2 \in BOOLEAN : tickSkip(ok1, ok2))
            => (cur' = cur /\ visible' = visible /\ ramps' = ramps)]_vars

\* C20: after handleVideoSelect or handleClearVideo the cut set is empty and
\* started, isSeeking, scrubbing and wasPlaying are false.
C20_NewMediaDiscardsCuts ==
    [][(\E d \in MediaDurs : handleVideoSelect(d) \/ handleClearVideo(d)) =>
         /\ cuts' = <<>>
         /\ ~started'
         /\ ~isSeeking'
         /\ ~scrubbing'
         /\ ~wasPlaying']_vars

\* A new source was loaded while B was the active buffer of a player that
\* had been started on a cut media: the cuts are gone, the flag is down.
C20_Witness ==
    /\ srcGen = 1
    /\ metaPending = Buf
    /\ visible["B"]
    /\ cuts = <<>>
    /\ ~started

(***************************************************************************)
(* Export: handleExportVideo (VideoEditor.tsx:498-553), the encoding       *)
(* service (app/api/export-video/route.ts) and the artifact retrieval      *)
(* endpoint (app/api/download-video/[filename]/route.ts).                  *)
(***************************************************************************)
\* The state of construction, before the mount effect has set a source.
InitExport == InitState("")

\* The mount effect, VideoEditor.tsx:657-695: the URL of the query string or
\* the default one; the effect on [videoUrl, cuts] then loads both elements.
mountEffect(url, d) ==
    /\ videoUrl = ""
    /\ videoUrl' = url
    /\ mediaDur' = d
    /\ ReloadBoth
    /\ UNCHANGED <<editorVars, visible, vol, ramps, drag, spans, zooms,
                   playerVars, exporting, response, sent, blocked, filter,
                   store, reply, serviceVars>>

\* Faulty variant: the request is sent whatever the cut list and the source.
handleExportVideo_Unchecked(confirmed) ==
    /\ ~exporting
    /\ Len(sent) < MaxExports
    /\ exporting' = TRUE
    /\ response' = "pending"
    /\ sent' = Append(sent, [videoUrl |-> videoUrl, cuts |-> cuts,
                             mediaDur |-> mediaDur])
    /\ UNCHANGED blocked
    /\ UNCHANGED <<editorVars, visible, cur, vol, paused, ready, mediaDur,
                   metaPending, tuPending, ramps, drag, spans, zooms,
                   playerVars, videoUrl, filter, store, reply,
                   serviceVars>>

\* handleExportVideo up to its await; confirmed is the answer to
\* window.confirm. The button is disabled while exporting (CutsList.tsx:50).
handleExportVideo(confirmed) ==
    /\ ~exporting
    /\ IF videoUrl = "" \/ Len(cuts) = 0
       THEN /\ blocked' = <<videoUrl, Len(cuts)>>
            /\ UNCHANGED <<exporting, response, sent>>
       ELSE IF ~confirmed
       THEN UNCHANGED <<exporting, response, sent, blocked>>
       ELSE /\ Len(sent) < MaxExports
            /\ exporting' = TRUE
            /\ response' = "pending"
            /\ sent' = Append(sent, [videoUrl |-> videoUrl, cuts |-> cuts,
                                     mediaDur |-> mediaDur])
            /\ UNCHANGED blocked
    /\ UNCHANGED <<editorVars, visible, cur, vol, paused, ready, mediaDur,
                   metaPending, tuPending, ramps, drag, spans, zooms,
                   playerVars, videoUrl, filter, store, reply,
                   serviceVars>>

\* The rest of handleExportVideo, lines 525-552, once the fetch has settled.
exportDone ==
    /\ response \in {"ok", "error"}
    /\ response' = "none"
    /\ exporting' = FALSE
    /\ UNCHANGED <<editorVars, visible, cur, vol, paused, ready, mediaDur,
                   metaPending, tuPending, ramps, drag, spans, zooms,
                   playerVars, videoUrl, sent, blocked, filter, store, reply,
                   serviceVars>>

\* generateFFmpegFilter, route.ts:42-64: the segments to keep.
RECURSIVE SegmentLoop(_, _, _, _, _)
SegmentLoop(sortedCuts, i, lastEnd, segments, dur) ==
    IF i > Len(sortedCuts)
    THEN IF lastEnd < dur
         THEN Append(segments, [start |-> lastEnd, end |-> dur])
         ELSE segments
    ELSE LET cut == sortedCuts[i]
         IN SegmentLoop(sortedCuts, i + 1, Max(lastEnd, cut.e),
                        IF cut.s > lastEnd
                        THEN Append(segments, [start |-> lastEnd, end |-> cut.s])
                        ELSE segments,
                        dur)

\* Faulty variant: the material behind the last cut is not kept.
generateFFmpegFilter_NoTail(cs, dur) ==
    IF Len(cs) = 0 THEN <<>>
    ELSE SegmentLoop(SortByStart(cs), 1, 0, <<>>, 0)

generateFFmpegFilter(cs, dur) ==
    IF Len(cs) = 0 THEN <<>>
    ELSE SegmentLoop(SortByStart(cs), 1, 0, <<>>, dur)

\* The n-th artifact, edited_<timestamp>.mp4; "." is public/exports itself.
ArtifactName(n) == [i \in 1..n |-> "e"]
ExportsDir == <<".">>

\* POST of export-video, route.ts:78-176. Only an absolute http(s) URL can
\* be downloaded, and the download or ffmpeg may fail (fetched, encoded).
POST(fetched, encoded) ==
    /\ response = "pending"
    /\ LET body == sent[Len(sent)]
           probed == body.mediaDur
           downloaded == body.videoUrl = "http:" /\ fetched
       IN /\ filter' = IF downloaded /\ Len(body.cuts) > 0
                       THEN [cuts |-> body.cuts, duration |-> probed,
                             segments |-> generateFFmpegFilter(body.cuts, probed)]
                       ELSE filter
          /\ store' = store \cup {ExportsDir}
                      \cup (IF downloaded /\ encoded
                            THEN {ArtifactName(Cardinality(store \ {ExportsDir}) + 1)}
                            ELSE {})
          /\ response' = IF downloaded /\ encoded THEN "ok" ELSE "error"
    /\ UNCHANGED <<editorVars, visible, cur, vol, paused, ready, mediaDur,
                   metaPending, tuPending, ramps, drag, spans, zooms,
                   playerVars, videoUrl, exporting, sent, blocked, reply,
                   serviceVars>>

\* Faulty variant: only an exact match is found.
includes_Whole(str, sub) == str = sub

\* String.prototype.includes on a filename, a sequence of characters.
includes(str, sub) ==
    \E i \in 0..(Len(str) - Len(sub)) :
        \A j \in 1..Len(sub) : str[i + j] = sub[j]

Chars == {"e", ".", "/"}
Filenames == UNION {[1..n -> Chars] : n \in 1..MaxNameLen}

\* GET of download-video, route.ts:6-49; readFile of the directory throws.
GET(filename) ==
    /\ reply' =
         IF includes(filename, <<".", ".">>) \/ includes(filename, <<"/">>)
         THEN [filename |-> filename, status |-> 400, read |-> FALSE,
               attachment |-> FALSE]
         ELSE IF filename \notin store
         THEN [filename |-> filename, status |-> 404, read |-> FALSE,
               attachment |-> FALSE]
         ELSE IF filename = ExportsDir
         THEN [filename |-> filename, status |-> 500, read |-> TRUE,
               attachment |-> FALSE]
         ELSE [filename |-> filename, status |-> 200, read |-> TRUE,
               attachment |-> TRUE]
    /\ UNCHANGED <<editorVars, visible, cur, vol, paused, ready, mediaDur,
                   metaPending, tuPending, ramps, drag, spans, zooms,
                   playerVars, videoUrl, exporting, response, sent, blocked,
                   filter, store, serviceVars>>

\* A file is uploaded: handleVideoSelect with the object URL of the file.
selectFile(d) ==
    /\ handleVideoSelect(d)
    /\ videoUrl' = "blob:"
    /\ UNCHANGED <<spans, zooms, playerVars, exporting, response, sent,
                   blocked, filter, store, reply, serviceVars>>

\* Spans cut before an export: two that merge and one further on.
ExportSpans == {<<2000, 4000>>, <<3000, 7000>>, <<20000, 25000>>}

NextExport ==
    \/ \E url \in {DefaultUrl, "http:"}, d \in ViewMediaDurs : mountEffect(url, d)
    \/ \E sp \in ExportSpans : Len(spans) < MaxExportSpans /\ InsertSpan(sp)
    \/ \E index \in 1..Len(cuts) : RemoveSpan(index)
    \/ ClearSpans
    \/ \E b \in Buf : onMeta(b) /\ UNCHANGED histVars
    \/ \E d \in MediaDurs : selectFile(d)
    \/ \E confirmed \in BOOLEAN : handleExportVideo(confirmed)
    \/ \E fetched, encoded \in BOOLEAN : POST(fetched, encoded)
    \/ exportDone

SpecExport == InitExport /\ [][NextExport]_vars

\* C21: an export attempted with an empty cut list or with no source is
\* reported at once and blocked: no request is sent, and the exporting flag
\* and the cut set are as before.
C21_EmptyExportBlocked ==
    [][((\E confirmed \in BOOLEAN : handleExportVideo(confirmed))
         /\ (videoUrl = "" \/ Len(cuts) = 0)) =>
          /\ blocked' = <<videoUrl, Len(cuts)>>
          /\ sent' = sent
          /\ response' = response
          /\ exporting' = exporting
          /\ cuts' = cuts]_vars

\* A request was sent, and later an export was refused for want of cuts
\* while the first one was not yet answered by the editor's side.
C21_Witness ==
    /\ blocked = <<"http:", 0>>
    /\ Len(sent) = 1
    /\ response = "none"
    /\ ~exporting

\* C22: every request sent to the encoding service carries cuts sorted by
\* start, pairwise disjoint and with s < e for every entry.
C22_RequestCutsNormal ==
    \A r \in 1..Len(sent) :
        LET cs == sent[r].cuts
        IN /\ \A i \in 1..Len(cs) : cs[i].s < cs[i].e
           /\ \A i, j \in 1..Len(cs) :
                  i < j => cs[i].s <= cs[j].s /\ cs[i].e <= cs[j].s

\* A request whose cut was merged from two overlapping spans.
C22_Witness ==
    /\ Len(sent) = 1
    /\ sent[1].cuts = <<[s |-> 2000, e |-> 7000]>>

\* Times at which the kept segments are compared with the complement of
\* the cuts: every bound of a cut or of a segment and the millisecond before.
SegmentProbes(f) ==
    LET bounds == {0, f.duration}
                  \cup {f.cuts[i].s : i \in 1..Len(f.cuts)}
                  \cup {f.cuts[i].e : i \in 1..Len(f.cuts)}
                  \cup {f.segments[i].start : i \in 1..Len(f.segments)}
                  \cup {f.segments[i].end : i \in 1..Len(f.segments)}
    IN bounds \cup {b - 1 : b \in bounds}

\* C23: the segments built by generateFFmpegFilter are sorted, pairwise
\* disjoint, each with start < end, none outside [0, duration], and their
\* union is [0, duration] minus the union of the cuts.
C23_SegmentsAreComplement ==
    filter # NoFilter =>
        LET segs == filter.segments
        IN /\ \A i \in 1..Len(segs) : segs[i].start < segs[i].end
           /\ \A i, j \in 1..Len(segs) : i < j => segs[i].end <= segs[j].start
           /\ \A i \in 1..Len(segs) :
                  0 <= segs[i].start /\ segs[i].end <= filter.duration
           /\ \A t \in SegmentProbes(filter) :
                  (\E i \in 1..Len(segs) : segs[i].start <= t /\ t < segs[i].end)
                  <=> /\ 0 <= t
                      /\ t < filter.duration
                      /\ ~\E i \in 1..Len(filter.cuts) :
                             filter.cuts[i].s <= t /\ t < filter.cuts[i].e

(***************************************************************************)
(* Retrieval: one export of the default selection, then downloads.         *)
(***************************************************************************)
NextDownload ==
    \/ \E url \in {DefaultUrl, "http:"}, d \in MediaDurs : mountEffect(url, d)
    \/ \E b \in Buf : onMeta(b) /\ UNCHANGED histVars
    \/ Len(cuts) < MaxViewCuts /\ addCut /\ UNCHANGED histVars
    \/ \E confirmed \in BOOLEAN : handleExportVideo(confirmed)
    \/ \E fetched, encoded \in BOOLEAN : POST(fetched, encoded)
    \/ exportDone
    \/ \E filename \in Filenames : GET(filename)

SpecDownload == InitExport /\ [][NextDownload]_vars

HasSeparator(name) == \E i \in 1..Len(name) : name[i] = "/"
HasParent(name) == \E i \in 1..Len(name) - 1 : name[i] = "." /\ name[i + 1] = "."

\* C24: the retrieval endpoint returns an attachment only for a filename
\* with no '/' and no '..'; a filename with either is answered 400 and no
\* file is read for it.
C24_DownloadGuardsPath ==
    reply # NoReply =>
        LET unsafe == HasSeparator(reply.filename) \/ HasParent(reply.filename)
        IN /\ reply.attachment => ~unsafe
           /\ unsafe => reply.status = 400 /\ ~reply.read /\ ~reply.attachment

\* The artifact of an export was downloaded.
C24_Witness ==
    /\ reply.attachment
    /\ reply.status = 200
    /\ reply.filename = ArtifactName(1)
    /\ ArtifactName(1) \in store

(***************************************************************************)
(* Properties of the duty cycle (tickSkip) and of the crossfade.           *)
(***************************************************************************)
\* The cut the duty cycle sees from the active cursor, and its pre-roll target.
TickCut == nextCutAfter(cuts, cur[active(visible)])
TickInCut ==
    /\ TickCut # None
    /\ cur[active(visible)] >= TickCut.s
    /\ cur[active(visible)] < TickCut.e
TickTarget ==
    Max(TickCut.e, cur[active(visible)] + (TickCut.e - TickCut.s))
TickSkipStep == \E ok1, ok2 \in BOOLEAN : tickSkip(ok1, ok2)

\* C25: in one tickSkip invocation the pre-roll runs before the cut-skip:
\* when the active cursor is inside a cut, the loaded standby is at the
\* pre-roll target max(cut.e, t + (cut.e - cut.s)) when the swap is made.
C25_PrerollBeforeSkip ==
    [][(TickSkipStep /\ TickInCut) =>
         /\ visible' = crossVisible(visible)
         /\ ready[standby(visible)] => cur'[standby(visible)] = TickTarget]_vars

\* B was swapped in from a tick 2.5 s inside the cut [27.5 s, 32.5 s]: it is
\* at the pre-roll target 35 s, not at the end of the cut.
C25_Witness ==
    /\ visible["B"]
    /\ ramps # <<>>
    /\ cur["A"] = 30000
    /\ cur["B"] = 35000

\* C26: when nextCutAfter(t) is none or t < cut.s - 400 ms, tickSkip changes
\* neither buffer's cursor, role, volume nor play state; when
\* t >= cut.s - 400 ms it sets the cursor of the loaded standby to
\* max(cut.e, t + (cut.e - cut.s)).
C26_PrerollRule ==
    [][TickSkipStep =>
         LET t == cur[active(visible)]
             B == standby(visible)
         IN /\ (TickCut = None \/ t < TickCut.s - PrerollMargin) =>
                  /\ cur' = cur
                  /\ visible' = visible
                  /\ vol' = vol
                  /\ paused' = paused
            /\ (TickCut # None /\ t >= TickCut.s - PrerollMargin /\ ready[B]) =>
                  cur'[B] = TickTarget]_vars

\* A tick 300 ms before the cut [27.5 s, 32.5 s] has put the standby at the
\* end of the cut; no swap has been made.
C26_Witness ==
    /\ visible["A"]
    /\ ramps = <<>>
    /\ cur["A"] = 27200
    /\ cur["B"] = 32500
    /\ ~paused["A"]

\* C27: the skip keeps the play/pause state: when the swap is made while the
\* active buffer is paused, no buffer is playing after it.
C27_SkipKeepsPause ==
    [][(TickSkipStep /\ TickInCut /\ paused[active(visible)]) =>
         \A b \in Buf : paused'[b]]_vars

\* C28: the role swap is made when the ramp starts, so on every animation
\* frame of a ramp active() is the incoming buffer of that ramp.
C28_ActiveIsIncoming ==
    [][\A i \in 1..Len(ramps), k \in FramePoints :
          step(i, k) => active(visible) = ramps[i].to]_vars


(***************************************************************************)
(* The player session with animation frames that keep being delivered:     *)
(* performance.now() grows, so every ramp gets a frame with k = 1.         *)
(***************************************************************************)
LastFrame == \E i \in 1..Len(ramps) : step(i, FullVolume) /\ UNCHANGED histVars
\* Callbacks run in the order of their requests: the oldest ramp gets its frame.
OldestEnds == step(1, FullVolume) /\ UNCHANGED histVars

SpecFade == Init /\ [][Next]_vars /\ WF_vars(OldestEnds)

NextOverlap ==
    \/ PointerFree /\ Len(cuts) < MaxViewCuts /\ addCut /\ UNCHANGED histVars
    \/ \E index \in 1..Len(cuts) : PointerFree /\ removeCut(index) /\ UNCHANGED histVars
    \/ PointerFree /\ clearAllCuts /\ UNCHANGED histVars
    \/ \E b \in Buf : onMeta(b) /\ UNCHANGED histVars
    \/ PointerFree /\ handlePlayPause /\ UNCHANGED histVars
    \/ LastFrame
    \/ \E ok1, ok2 \in BOOLEAN : tickSkipWithin(MaxOverlap, ok1, ok2) /\ UNCHANGED histVars
    \/ \E b \in Buf : Advance(b) /\ UNCHANGED histVars

SpecOverlap == Init /\ [][NextOverlap]_vars

\* C30: the final step of a ramp pauses only a buffer that is the standby at
\* that moment, and leaves a buffer playing if one was.
C30_EndPausesStandby ==
    [][\A i \in 1..Len(ramps) :
          step(i, FullVolume) =>
            /\ ramps[i].from # active(visible)
            /\ (\E b \in Buf : ~paused[b]) => (\E b \in Buf : ~paused'[b])]_vars


\* C31: whenever no crossfade ramp is pending, the active buffer has volume
\* 1 and the standby buffer has volume 0.
C31_SteadyVolumes ==
    ramps = <<>> =>
        /\ vol[active(visible)] = FullVolume
        /\ vol[standby(visible)] = 0


(***************************************************************************)
(* Undoing cuts: removeCut and clearAllCuts with the answer to their       *)
(* window.confirm (VideoEditor.tsx:387-389, 412-415). Here spans records   *)
(* every span passed to addCut, removed or not.                            *)
(***************************************************************************)
\* What a declined confirmation leaves as it is: everything.
Declined ==
    UNCHANGED <<editorVars, visible, cur, vol, paused, ready, mediaDur,
                metaPending, tuPending, ramps, drag>>

confirmRemoveCut(index, confirmed) ==
    /\ index \in 1..Len(cuts)
    /\ IF confirmed THEN removeCut(index) ELSE Declined
    /\ UNCHANGED histVars

confirmClearAllCuts(confirmed) ==
    /\ Len(cuts) > 0
    /\ IF confirmed THEN clearAllCuts ELSE Declined
    /\ UNCHANGED histVars

NextUndo ==
    \/ \E sp \in InsSpans : InsertSpan(sp)
    \/ \E index \in 1..Len(cuts), confirmed \in BOOLEAN : confirmRemoveCut(index, confirmed)
    \/ \E confirmed \in BOOLEAN : confirmClearAllCuts(confirmed)
    \/ \E b \in Buf : onMeta(b) /\ UNCHANGED histVars

SpecUndo == Init /\ [][NextUndo]_vars

\* C32: removeCut(index), once confirmed, deletes exactly the interval at
\* that position and leaves every other interval unchanged in value and
\* order; declined, it changes neither the cut set, the buffers, the
\* viewport nor the selection; clearAllCuts, once confirmed, empties the set.
C32_RemoveExactlyOne ==
    [][/\ \A index \in 1..Len(cuts) :
            /\ confirmRemoveCut(index, TRUE) =>
                 /\ Len(cuts') = Len(cuts) - 1
                 /\ \A i \in 1..Len(cuts') :
                        cuts'[i] = cuts[IF i < index THEN i ELSE i + 1]
            /\ confirmRemoveCut(index, FALSE) =>
                 /\ cuts' = cuts
                 /\ <<visible, cur, vol, paused>>' = <<visible, cur, vol, paused>>
                 /\ <<viewStart, viewEnd>>' = <<viewStart, viewEnd>>
                 /\ <<selEffStart, selEffEnd>>' = <<selEffStart, selEffEnd>>
       /\ confirmClearAllCuts(TRUE) => cuts' = <<>>]_vars

\* Three disjoint spans were cut and the middle one was removed.
C32_Witness ==
    /\ spans = <<[s |-> 2000, e |-> 4000], [s |-> 6000, e |-> 8000],
                 [s |-> 10000, e |-> 15000]>>
    /\ cuts = <<[s |-> 2000, e |-> 4000], [s |-> 10000, e |-> 15000]>>


\* C33: after zoomToTimeSpan(seconds), for seconds within the total
\* duration, viewEnd is the new viewStart plus seconds, whatever the
\* viewport was before.
C33_SpanAsRequested ==
    [][\A seconds \in ViewPresets :
          (zoomToTimeSpan(seconds) /\ seconds <= effDuration(duration)) =>
              viewEnd' = viewStart' + seconds]_vars

(***************************************************************************)
(* The player's time mappings and the exported length on normalized cuts.  *)
(***************************************************************************)
\* Sorted by start, every interval non-empty, no two touching or overlapping
\* within the merge tolerance: what normalizeCuts returns.
Normalized(cs) ==
    /\ \A i \in 1..Len(cs) : cs[i].s < cs[i].e
    /\ \A i \in 1..(Len(cs) - 1) : cs[i].e + MergeEps < cs[i + 1].s

InCut(cs, t) == \E i \in 1..Len(cs) : cs[i].s <= t /\ t < cs[i].e

\* Player times at, one millisecond around and away from the effective
\* start of every stored cut, and one beyond the shortened duration.
PlayerProbes(cs) ==
    {0, 1000, 9000, 30000, 70000}
        \cup {realToPlayerEff(cs, cs[i].s) + d : i \in 1..Len(cs), d \in {-1, 0, 1}}

\* C35: for a normalized cut set and every player time te >= 0,
\* playerEffToReal(te) is not inside a cut.
C35_PlayerTimeIsKept ==
    Normalized(cuts) =>
        \A te \in PlayerProbes(cuts) :
            te >= 0 => ~InCut(cuts, playerEffToReal(cuts, te))

\* The player time at which the second of two cuts starts maps behind it.
C35_Witness ==
    /\ cuts = <<[s |-> 2000, e |-> 4000], [s |-> 6000, e |-> 8000]>>
    /\ playerEffToReal(cuts, 4000) = 8000
    /\ playerEffToReal(cuts, 3999) = 5999

\* C36: for a normalized cut set inside [0, duration], realToPlayerEff is
\* monotone non-decreasing in t and maps [0, duration] into
\* [0, effDurationAfterCuts()].
C36_RealToEffMonotone ==
    (Normalized(cuts) /\ \A i \in 1..Len(cuts) : 0 <= cuts[i].s /\ cuts[i].e <= duration) =>
        LET probes == {t \in EffProbes(cuts) \cup {duration, duration - 1} :
                           0 <= t /\ t <= duration}
        IN /\ \A t1, t2 \in probes :
                  t1 <= t2 => realToPlayerEff(cuts, t1) <= realToPlayerEff(cuts, t2)
           /\ \A t \in probes :
                  /\ 0 <= realToPlayerEff(cuts, t)
                  /\ realToPlayerEff(cuts, t) <= effDurationAfterCuts(duration, cuts)

\* Two cuts stored: a time inside the second is pinned below its end's image,
\* and the end of the media maps to the shortened duration.
C36_Witness ==
    /\ cuts = <<[s |-> 2000, e |-> 4000], [s |-> 6000, e |-> 8000]>>
    /\ realToPlayerEff(cuts, 7000) = 4000
    /\ realToPlayerEff(cuts, 8000) = 4000
    /\ realToPlayerEff(cuts, duration) = effDurationAfterCuts(duration, cuts)

RECURSIVE SegmentsLen(_, _)
SegmentsLen(segs, i) ==
    IF i > Len(segs) THEN 0
    ELSE (segs[i].end - segs[i].start) + SegmentsLen(segs, i + 1)

\* C37: for a sorted disjoint cut list inside [0, duration], the kept
\* segments built by generateFFmpegFilter add up to
\* max(0, duration - totalCutLen()).
C37_ExportedLength ==
    (/\ filter # NoFilter
     /\ Normalized(filter.cuts)
     /\ \A i \in 1..Len(filter.cuts) :
            0 <= filter.cuts[i].s /\ filter.cuts[i].e <= filter.duration) =>
        SegmentsLen(filter.segments, 1) = effDurationAfterCuts(filter.duration, filter.cuts)

\* Two cuts inside the probed duration: three segments are kept.
C37_Witness ==
    /\ filter # NoFilter
    /\ filter.cuts = <<[s |-> 2000, e |-> 4000], [s |-> 20000, e |-> 25000]>>
    /\ filter.duration = 60000
    /\ SegmentsLen(filter.segments, 1) = 53000
    /\ Len(filter.segments) = 3

(***************************************************************************)
(* The encoding service request by request: POST of export-video           *)
(* (route.ts:78-176) between its awaits, with requests in flight together. *)
(* A body carries videoUrl ("undefined" when the field is absent) and what *)
(* its cuts field is: absent, an array, or a value that is not an array.   *)
(***************************************************************************)
Bodies == [videoUrl : {"undefined", "", "blob:", "http:"},
           cuts : {"missing", "object", "array"}]

inputPath(timestamp) == <<"temp/input", timestamp>>
outputPath(timestamp) == <<"public/exports/edited", timestamp>>

InFlight == {"downloading", "probing", "failed"}

Answer(j, status, error, message) ==
    [jobs[j] EXCEPT !.stage = "done", !.status = status, !.error = error,
                    !.message = message]

\* Lines 80-116, up to the await of downloadVideo: the log line reads
\* videoUrl.substring and cuts.length before the validation; createWriteStream
\* returns before the file is opened; http.get throws on a URL that is not an
\* absolute http(s) one.
POSTStart(j, body) ==
    /\ jobs[j].stage = "idle"
    /\ j > 1 => jobs[j - 1].stage # "idle"
    /\ LET arrived == [jobs[j] EXCEPT !.videoUrl = body.videoUrl,
                                      !.cuts = body.cuts]
       IN IF body.videoUrl = "undefined" \/ body.cuts = "missing"
          THEN /\ jobs' = [jobs EXCEPT ![j] =
                     [arrived EXCEPT !.stage = "done", !.status = 500,
                                     !.error = "Export failed", !.message = TRUE]]
               /\ UNCHANGED <<dirs, opening>>
          ELSE IF body.videoUrl = "" \/ body.cuts # "array"
          THEN /\ jobs' = [jobs EXCEPT ![j] =
                     [arrived EXCEPT !.stage = "done", !.status = 400,
                                     !.error = "Invalid request data"]]
               /\ UNCHANGED <<dirs, opening>>
          ELSE /\ dirs' = dirs \cup {"temp", "public/exports"}
               /\ opening' = opening \cup {inputPath(clock)}
               /\ jobs' = [jobs EXCEPT ![j] =
                     [arrived EXCEPT !.timestamp = clock,
                                     !.stage = IF body.videoUrl = "http:"
                                               THEN "downloading" ELSE "failed",
                                     !.cause = IF body.videoUrl = "http:"
                                               THEN "" ELSE "download"]]
    /\ UNCHANGED <<clock, disk>>

\* The file of a write stream is opened (created) by the I/O pool.
openStream(path) ==
    /\ path \in opening
    /\ opening' = opening \ {path}
    /\ disk' = disk \cup {path}
    /\ UNCHANGED <<clock, jobs, dirs>>

\* downloadVideo, lines 23-39, settles: the response was piped into the
\* opened file, or the request emitted 'error'.
downloadVideo(j, fetched) ==
    /\ jobs[j].stage = "downloading"
    /\ fetched => inputPath(jobs[j].timestamp) \notin opening
    /\ jobs' = [jobs EXCEPT ![j] =
          IF fetched THEN [@ EXCEPT !.stage = "probing"]
          ELSE [@ EXCEPT !.stage = "failed", !.cause = "download"]]
    /\ UNCHANGED <<clock, dirs, opening, disk>>

\* Lines 119-150: ffprobe, then cp or ffmpeg, then unlink(inputPath) and the
\* answer; a failed encoder may leave a partial output.
encode(j, probed, encoded, partial) ==
    /\ jobs[j].stage = "probing"
    /\ LET input == inputPath(jobs[j].timestamp)
           output == outputPath(jobs[j].timestamp)
       IN IF ~probed \/ input \notin disk
          THEN /\ jobs' = [jobs EXCEPT ![j] =
                     [@ EXCEPT !.stage = "failed", !.cause = "probe"]]
               /\ UNCHANGED disk
          ELSE IF ~encoded
          THEN /\ jobs' = [jobs EXCEPT ![j] =
                     [@ EXCEPT !.stage = "failed", !.cause = "encode"]]
               /\ disk' = IF partial THEN disk \cup {output} ELSE disk
          ELSE /\ jobs' = [jobs EXCEPT ![j] = Answer(j, 200, "", FALSE)]
               /\ disk' = (disk \cup {output}) \ {input}
    /\ UNCHANGED <<clock, dirs, opening>>

\* The inner catch, lines 152-164, and the outer one, 166-172.
cleanUp(j) ==
    /\ jobs[j].stage = "failed"
    /\ disk' = disk \ {inputPath(jobs[j].timestamp), outputPath(jobs[j].timestamp)}
    /\ jobs' = [jobs EXCEPT ![j] = Answer(j, 500, "Export failed", TRUE)]
    /\ UNCHANGED <<clock, dirs, opening>>

\* A millisecond passes.
tickClock ==
    /\ clock < MaxClock
    /\ clock' = clock + 1
    /\ UNCHANGED <<jobs, dirs, opening, disk>>

clientVars == <<editorVars, visible, cur, vol, paused, ready, mediaDur,
                metaPending, tuPending, ramps, drag, spans, zooms, playerVars,
                videoUrl, exporting, response, sent, blocked, filter, store,
                reply>>

NextService ==
    \/ \E j \in 1..MaxJobs, body \in Bodies : POSTStart(j, body) /\ UNCHANGED clientVars
    \/ \E path \in opening : openStream(path) /\ UNCHANGED clientVars
    \/ \E j \in 1..MaxJobs, fetched \in BOOLEAN :
           downloadVideo(j, fetched) /\ UNCHANGED clientVars
    \/ \E j \in 1..MaxJobs, probed, encoded, partial \in BOOLEAN :
           encode(j, probed, encoded, partial) /\ UNCHANGED clientVars
    \/ \E j \in 1..MaxJobs : cleanUp(j) /\ UNCHANGED clientVars
    \/ tickClock /\ UNCHANGED clientVars

SpecService == InitExport /\ [][NextService]_vars

\* C34: when an export has failed inside the service (download, probe or
\* encode), neither its temp input nor a partial output remains, and the
\* answer is an error payload with a message.
C34_FailureLeavesNothing ==
    \A j \in 1..MaxJobs :
        (jobs[j].stage = "done" /\ jobs[j].cause \in {"download", "probe", "encode"}) =>
            /\ inputPath(jobs[j].timestamp) \notin disk
            /\ outputPath(jobs[j].timestamp) \notin disk
            /\ jobs[j].status = 500
            /\ jobs[j].error = "Export failed"
            /\ jobs[j].message

\* C38: two export requests in flight together never share files: their
\* temp input paths differ and their output filenames differ.
C38_DistinctFiles ==
    \A j1, j2 \in 1..MaxJobs :
        (j1 # j2 /\ jobs[j1].stage \in InFlight /\ jobs[j2].stage \in InFlight) =>
            /\ inputPath(jobs[j1].timestamp) # inputPath(jobs[j2].timestamp)
            /\ outputPath(jobs[j1].timestamp) # outputPath(jobs[j2].timestamp)

\* C39: a request whose videoUrl is missing or empty, or whose cuts is not
\* an array, is answered 400 'Invalid request data', and nothing was created,
\* downloaded or run for it.
C39_InvalidRejected ==
    \A j \in 1..MaxJobs :
        (/\ jobs[j].stage # "idle"
         /\ (jobs[j].videoUrl \in {"undefined", ""} \/ jobs[j].cuts # "array")) =>
            /\ jobs[j].stage = "done"
            /\ jobs[j].status = 400
            /\ jobs[j].error = "Invalid request data"
            /\ jobs[j].timestamp = -1

=============================================================================
